---- MODULE Spec2Model ----
(***************************************************************************)
(* Order placement of the inventory & order system (src/main.py,           *)
(* src/models.py).  The store holds the committed rows of the four tables; *)
(* every request owns a Session (get_session) with its own identity map,   *)
(* so what a handler has loaded and what the store holds can differ.       *)
(* Handlers of different requests run on worker threads and interleave at  *)
(* every store access.                                                     *)
(*                                                                         *)
(* What the store does, as far as the handlers depend on it:               *)
(*  - a read (session.get, select, the reload of an expired object) sees   *)
(*    the rows committed so far; reads do not open a transaction, so two   *)
(*    reads of one handler can see different committed states;             *)
(*  - session.commit() writes the pending rows at once and expires every   *)
(*    object of the Session; the UPDATE of a changed product sets the new  *)
(*    value of current_stock by primary key, whatever the row holds now,   *)
(*    and raises if the row is gone;                                       *)
(*  - ids are rowids: the next one is the number of rows plus one (orders  *)
(*    and order items are never deleted).                                  *)
(* Of a product, only price and current_stock are kept: name, sku and      *)
(* reorder_level are read by no handler modelled here.                     *)
(***************************************************************************)
EXTENDS Integers, Sequences, FiniteSets, TLC

\* ---- bounds of the model ------------------------------------------------
\* the stock a product starts with and is set back to
MaxStock == 1
\* the largest quantity of an item of a request (the smallest is 0)
MaxQty == 1
\* the longest item list of a request
MaxItems == 2
\* requests are accepted while orders placed and requests in flight stay below it
MaxOrders == 2

ProductIds == {1, 2}
CustomerIds == {1, 2}
Prices == {1, 2}
Req == {1, 2}

Quantities == 0 .. MaxQty
\* update_product bodies: any price, the stock set back to the full shelf
Restock == {MaxStock}

VARIABLES
    products,     \* table product: id -> row
    customers,    \* table customer: set of ids that have a row
    orders,       \* table order, in rowid order
    order_items,  \* table orderitem, in rowid order
    pc,           \* per request: position inside create_order
    order_data,   \* per request: the OrderCreate body
    local,        \* per request: Session identity map and the handler's locals
    result        \* per request: the response of the last finished create_order

vars == <<products, customers, orders, order_items, pc, order_data, local, result>>
store == <<products, customers, orders, order_items>>

\* ---- rows and schemas (src/models.py) -----------------------------------
NoRow == [exists |-> FALSE, price |-> 0, current_stock |-> 0]

Product(price, stock) == [exists |-> TRUE, price |-> price, current_stock |-> stock]

Order(id, customer_id) == [id |-> id, customer_id |-> customer_id, status |-> "PENDING"]

OrderItem(id, order_id, product_id, quantity, unit_price) ==
    [id |-> id, order_id |-> order_id, product_id |-> product_id,
     quantity |-> quantity, unit_price |-> unit_price]

OrderItemCreate == [product_id : ProductIds, quantity : Quantities]

SeqsUpTo(S, n) == UNION {[1 .. k -> S] : k \in 0 .. n}

OrderCreate == [customer_id : CustomerIds, items : SeqsUpTo(OrderItemCreate, MaxItems)]

NoData == [customer_id |-> 0, items |-> <<>>]

\* ---- the Session of one request -----------------------------------------
\* An entry of the identity map: absent, loaded (clean or dirty) or expired.
NoObj == [st |-> "none", price |-> 0, current_stock |-> 0]
Expired == [st |-> "expired", price |-> 0, current_stock |-> 0]
Loaded(row) == [st |-> "clean", price |-> row.price, current_stock |-> row.current_stock]

NoLocal ==
    [i |-> 0, idmap |-> [p \in ProductIds |-> NoObj], products_to_update |-> <<>>,
     order_id |-> 0, created_items |-> <<>>]

\* expire_on_commit: every object of the identity map is expired by commit()
ExpireAll(idmap) ==
    [p \in ProductIds |-> IF idmap[p].st = "none" THEN NoObj ELSE Expired]

\* ---- responses -----------------------------------------------------------
\* kind: the HTTPException raised (or "ok"); product_id, have, need: the numbers of
\* its detail; at: the iteration of the validation loop that raised it; view: the
\* OrderRead of a success
NoResult ==
    [kind |-> "none", product_id |-> 0, have |-> 0, need |-> 0, at |-> 0, view |-> <<>>]
Failure(kind) == [NoResult EXCEPT !.kind = kind]
ProductNotFound(pid) == [NoResult EXCEPT !.kind = "ProductNotFound", !.product_id = pid]
NotEnoughStock(pid, have, need) ==
    [NoResult EXCEPT !.kind = "InsufficientStock", !.product_id = pid,
                     !.have = have, !.need = need]

\* the select without its where clause
SelectAllItems(items, oid) == items

\* select(OrderItem).where(OrderItem.order_id == oid), rows in rowid order
SelectItems(items, oid) == SelectSeq(items, LAMBDA it : it.order_id = oid)

OrderRead(o, items) ==
    [id |-> o.id, customer_id |-> o.customer_id, status |-> o.status,
     items |-> SelectItems(items, o.id)]

Success(view) == [NoResult EXCEPT !.kind = "ok", !.view = <<view>>]

\* ---- read handlers -------------------------------------------------------
\* session.get(Order, oid) and the select of its items, on tables os and its
OrderView(os, its, oid) ==
    IF oid \in 1 .. Len(os) THEN <<OrderRead(os[oid], its)>> ELSE <<>>

get_order(oid) == OrderView(orders, order_items, oid)

list_orders == [k \in 1 .. Len(orders) |-> OrderRead(orders[k], order_items)]

get_product(pid) == IF products[pid].exists THEN <<products[pid]>> ELSE <<>>

Init ==
    /\ products = [p \in ProductIds |-> Product(1, MaxStock)]
    /\ customers = {1}
    /\ orders = <<>>
    /\ order_items = <<>>
    /\ pc = [r \in Req |-> "idle"]
    /\ order_data = [r \in Req |-> NoData]
    /\ local = [r \in Req |-> NoLocal]
    /\ result = [r \in Req |-> NoResult]

\* the request is over: the Session is closed, the handler's locals are gone
Finish(r, res) ==
    /\ pc' = [pc EXCEPT ![r] = "idle"]
    /\ local' = [local EXCEPT ![r] = NoLocal]
    /\ order_data' = [order_data EXCEPT ![r] = NoData]
    /\ result' = [result EXCEPT ![r] = res]

InFlight == {q \in Req : pc[q] # "idle"}

\* POST /orders arrives: the body is parsed, the request gets its Session
post_orders(r, data) ==
    /\ pc[r] = "idle"
    /\ Len(orders) + Cardinality(InFlight) < MaxOrders
    /\ pc' = [pc EXCEPT ![r] = "customer"]
    /\ order_data' = [order_data EXCEPT ![r] = data]
    /\ result' = [result EXCEPT ![r] = NoResult]
    /\ UNCHANGED <<store, local>>

\* the checks of step 1, in the handler's order: the customer, then the item list
RequestCheck(data) ==
    IF data.customer_id \notin customers THEN Failure("CustomerNotFound")
    ELSE IF Len(data.items) = 0 THEN Failure("EmptyOrder")
    ELSE NoResult

\* create_order, step 1: the customer is looked up, an empty item list rejected
create_order_customer(r) ==
    /\ pc[r] = "customer"
    /\ UNCHANGED store
    /\ LET res == RequestCheck(order_data[r])
       IN IF res.kind # "none"
            THEN Finish(r, res)
            ELSE /\ pc' = [pc EXCEPT ![r] = "validate"]
                 /\ local' = [local EXCEPT ![r].i = 1]
                 /\ UNCHANGED <<order_data, result>>

\* session.get(Product, pid): the identity map first, the store otherwise
session_get(idmap, pid) ==
    IF idmap[pid].st # "none" THEN idmap[pid]
    ELSE IF products[pid].exists THEN Loaded(products[pid]) ELSE NoObj

\* the checks of one item with the product looked up before the quantity is checked
ItemCheckProductFirst(item, product) ==
    IF product.st = "none" THEN ProductNotFound(item.product_id)
    ELSE IF item.quantity <= 0 THEN Failure("InvalidQuantity")
    ELSE IF product.current_stock < item.quantity
      THEN NotEnoughStock(item.product_id, product.current_stock, item.quantity)
      ELSE NoResult

\* the outcome of the checks of one item against the product the Session returned
ItemCheck(item, product) ==
    IF item.quantity <= 0 THEN Failure("InvalidQuantity")
    ELSE IF product.st = "none" THEN ProductNotFound(item.product_id)
    ELSE IF product.current_stock < item.quantity
      THEN NotEnoughStock(item.product_id, product.current_stock, item.quantity)
      ELSE NoResult

\* a validation loop that takes the stock of each item as soon as the item passes
create_order_validate_eager(r) ==
    /\ pc[r] = "validate"
    /\ UNCHANGED <<customers, orders, order_items>>
    /\ LET item == order_data[r].items[local[r].i]
           product == session_get(local[r].idmap, item.product_id)
           res == ItemCheck(item, product)
           last == local[r].i = Len(order_data[r].items)
       IN IF res.kind # "none"
            THEN Finish(r, [res EXCEPT !.at = local[r].i]) /\ UNCHANGED products
            ELSE /\ products' = [products EXCEPT
                        ![item.product_id].current_stock =
                            IF products[item.product_id].exists
                              THEN @ - item.quantity ELSE @]
                 /\ local' = [local EXCEPT
                        ![r].idmap[item.product_id] = product,
                        ![r].products_to_update =
                            Append(@, [product_id |-> item.product_id,
                                       quantity |-> item.quantity]),
                        ![r].i = IF last THEN 1 ELSE @ + 1]
                 /\ pc' = [pc EXCEPT ![r] = IF last THEN "order" ELSE "validate"]
                 /\ UNCHANGED <<order_data, result>>

\* create_order, one iteration of the validation loop
create_order_validate(r) ==
    /\ pc[r] = "validate"
    /\ UNCHANGED store
    /\ LET item == order_data[r].items[local[r].i]
           product == session_get(local[r].idmap, item.product_id)
           res == ItemCheck(item, product)
           last == local[r].i = Len(order_data[r].items)
       IN IF res.kind # "none"
            THEN Finish(r, [res EXCEPT !.at = local[r].i])
            ELSE /\ local' = [local EXCEPT
                        ![r].idmap[item.product_id] = product,
                        ![r].products_to_update =
                            Append(@, [product_id |-> item.product_id,
                                       quantity |-> item.quantity]),
                        ![r].i = IF last THEN 1 ELSE @ + 1]
                 /\ pc' = [pc EXCEPT ![r] = IF last THEN "order" ELSE "validate"]
                 /\ UNCHANGED <<order_data, result>>

\* create_order, step 3: the Order row is added, committed and refreshed
create_order_commit_order(r) ==
    /\ pc[r] = "order"
    /\ LET id == Len(orders) + 1
       IN /\ orders' = Append(orders, Order(id, order_data[r].customer_id))
          /\ local' = [local EXCEPT ![r].order_id = id,
                                    ![r].idmap = ExpireAll(@)]
    /\ pc' = [pc EXCEPT ![r] = "apply"]
    /\ UNCHANGED <<products, customers, order_items, order_data, result>>

\* a commit the store refuses: the Session rolls back, the exception is the response
commit_fails(r) ==
    /\ pc[r] \in {"order", "commit"}
    /\ UNCHANGED store
    /\ Finish(r, Failure("ServerError"))

\* the value OrderItem.unit_price gets in step 4
SnapshotPrice(product) == product.price

\* create_order, one iteration of step 4: decrement in memory, build the item
create_order_apply(r) ==
    /\ pc[r] = "apply"
    /\ UNCHANGED store
    /\ LET u == local[r].products_to_update[local[r].i]
           obj == local[r].idmap[u.product_id]
           last == local[r].i = Len(local[r].products_to_update)
       IN IF obj.st = "expired" /\ ~products[u.product_id].exists
            THEN \* the expired row is gone: ObjectDeletedError
                 Finish(r, Failure("ServerError"))
            ELSE LET product == IF obj.st = "expired"
                                  THEN Loaded(products[u.product_id]) ELSE obj
                     after == [product EXCEPT !.st = "dirty",
                                              !.current_stock = @ - u.quantity]
                 IN /\ local' = [local EXCEPT
                           ![r].idmap[u.product_id] = after,
                           ![r].created_items =
                               Append(@, [product_id |-> u.product_id,
                                          quantity |-> u.quantity,
                                          unit_price |-> SnapshotPrice(after)]),
                           ![r].i = IF last THEN 0 ELSE @ + 1]
                    /\ pc' = [pc EXCEPT ![r] = IF last THEN "commit" ELSE "apply"]
                    /\ UNCHANGED <<order_data, result>>

\* the rows the flush of the second commit inserts
NewItems(r) ==
    [k \in 1 .. Len(local[r].created_items) |->
        OrderItem(Len(order_items) + k, local[r].order_id,
                  local[r].created_items[k].product_id,
                  local[r].created_items[k].quantity,
                  local[r].created_items[k].unit_price)]

\* the UPDATE the flush emits for every dirty product: the new absolute stock
FlushStock(r, p) ==
    IF local[r].idmap[p].st = "dirty"
      THEN [products[p] EXCEPT !.current_stock = local[r].idmap[p].current_stock]
      ELSE products[p]

Dirty(r) == {p \in ProductIds : local[r].idmap[p].st = "dirty"}

\* create_order, the second commit and step 5, the response
create_order_commit_items(r) ==
    /\ pc[r] = "commit"
    /\ UNCHANGED <<customers, orders>>
    /\ IF \E p \in Dirty(r) : ~products[p].exists
         THEN \* UPDATE matched no row: StaleDataError, rollback
              /\ UNCHANGED <<products, order_items>>
              /\ Finish(r, Failure("ServerError"))
         ELSE /\ products' = [p \in ProductIds |-> FlushStock(r, p)]
              /\ order_items' = order_items \o NewItems(r)
              /\ Finish(r, Success(OrderRead(orders[local[r].order_id], order_items')))

\* an update whose new price reaches the order items of the product
update_product_live(pid, price, stock) ==
    /\ products[pid].exists
    /\ products' = [products EXCEPT ![pid] = Product(price, stock)]
    /\ order_items' = [k \in 1 .. Len(order_items) |->
                         IF order_items[k].product_id = pid
                           THEN [order_items[k] EXCEPT !.unit_price = price]
                           ELSE order_items[k]]
    /\ UNCHANGED <<customers, orders, pc, order_data, local, result>>

\* PUT /products/{id}: the row takes the price and the stock of the body
update_product(pid, price, stock) ==
    /\ products[pid].exists
    /\ products' = [products EXCEPT ![pid] = Product(price, stock)]
    /\ UNCHANGED <<customers, orders, order_items, pc, order_data, local, result>>

\* DELETE /products/{id}: the row goes, the order items that name it stay
delete_product(pid) ==
    /\ products[pid].exists
    /\ products' = [products EXCEPT ![pid] = NoRow]
    /\ UNCHANGED <<customers, orders, order_items, pc, order_data, local, result>>

Next ==
    \/ \E r \in Req, data \in OrderCreate : post_orders(r, data)
    \/ \E r \in Req : create_order_customer(r)
    \/ \E r \in Req : create_order_validate(r)
    \/ \E r \in Req : create_order_commit_order(r)
    \/ \E r \in Req : commit_fails(r)
    \/ \E r \in Req : create_order_apply(r)
    \/ \E r \in Req : create_order_commit_items(r)
    \/ \E pid \in ProductIds, price \in Prices, stock \in Restock :
          update_product(pid, price, stock)
    \/ \E pid \in ProductIds : delete_product(pid)

Spec == Init /\ [][Next]_vars

\* One request at a time: a handler runs to its response before the next starts.
Exclusive(r) == \A q \in Req \ {r} : pc[q] = "idle"
Quiet == \A q \in Req : pc[q] = "idle"

SeqNext ==
    \/ \E r \in Req, data \in OrderCreate : Exclusive(r) /\ post_orders(r, data)
    \/ \E r \in Req : create_order_customer(r)
    \/ \E r \in Req : create_order_validate(r)
    \/ \E r \in Req : create_order_commit_order(r)
    \/ \E r \in Req : commit_fails(r)
    \/ \E r \in Req : create_order_apply(r)
    \/ \E r \in Req : create_order_commit_items(r)
    \/ \E pid \in ProductIds, price \in Prices, stock \in Restock :
          Quiet /\ update_product(pid, price, stock)
    \/ \E pid \in ProductIds : Quiet /\ delete_product(pid)

SpecSeq == Init /\ [][SeqNext]_vars


\* ---- notions the properties are stated with --------------------------------
RECURSIVE SumQty(_, _)
\* the sum of the quantities the items of a request ask of product p
SumQty(items, p) ==
    IF items = <<>> THEN 0
    ELSE (IF Head(items).product_id = p THEN Head(items).quantity ELSE 0)
         + SumQty(Tail(items), p)

\* no product is referenced by two items of the request
DistinctProducts(items) ==
    \A j, k \in 1 .. Len(items) : j # k => items[j].product_id # items[k].product_id

\* request r takes a step / its handler ends / its handler ends with a success
Step(r) == pc'[r] # pc[r] \/ local'[r] # local[r]
Ends(r) == pc[r] # "idle" /\ pc'[r] = "idle"
Succeeds(r) == Ends(r) /\ result'[r].kind = "ok"

ItemErrors == {"InvalidQuantity", "ProductNotFound", "InsufficientStock"}

\* ---- C1 ---------------------------------------------------------------------
PersistedAll(r) ==
    /\ result'[r].kind = "ok"
    /\ local[r].order_id \in 1 .. Len(orders')
    /\ Len(SelectItems(order_items', local[r].order_id)) = Len(order_data[r].items)

PersistedNothing(r) ==
    /\ result'[r].kind # "ok"
    /\ \A k \in 1 .. Len(orders') : orders'[k].id # local[r].order_id
    /\ \A k \in 1 .. Len(order_items') : order_items'[k].order_id # local[r].order_id
    /\ products' = products

\* C1: every order placement attempt ends either with its Order, one OrderItem per
\* requested line and its stock decrements persisted, or with nothing of that
\* attempt persisted, also when the store refuses a commit.
C1_AllOrNothing ==
    [][\A r \in Req : Ends(r) => PersistedAll(r) \/ PersistedNothing(r)]_vars

\* ---- C2 ---------------------------------------------------------------------
Invalid(r, item) ==
    \/ item.quantity <= 0
    \/ session_get(local[r].idmap, item.product_id).st = "none"
    \/ session_get(local[r].idmap, item.product_id).current_stock < item.quantity

\* C2: an invalid item (quantity <= 0, product missing, stock below the quantity)
\* at any position makes create_order fail, and no step of the handler up to that
\* failure changes a stock count, the orders or the order items.
C2_InvalidItemChangesNothing ==
    [][\A r \in Req :
          /\ (pc[r] \in {"idle", "customer", "validate"} /\ Step(r))
                => UNCHANGED <<products, orders, order_items>>
          /\ (pc[r] = "validate" /\ Step(r)
                /\ Invalid(r, order_data[r].items[local[r].i]))
                => (Ends(r) /\ result'[r].kind \in ItemErrors)]_vars

\* a request failed on its second item, after its first item had passed
C2_Witness ==
    \E r \in Req : result[r].kind = "ProductNotFound" /\ result[r].at = 2

\* ---- C3 ---------------------------------------------------------------------
\* C3: an order succeeds only if, for every product, the sum of the quantities its
\* items ask of that product is at most the product's stock.
C3_CumulativeStockChecked ==
    [][\A r \in Req : Succeeds(r) =>
          \A p \in ProductIds :
              SumQty(order_data[r].items, p) > 0
                  => SumQty(order_data[r].items, p) <= products[p].current_stock]_vars

\* ---- C4 ---------------------------------------------------------------------
\* C4: the stock of every product is >= 0 in every reachable state.
C4_StockNeverNegative ==
    \A p \in ProductIds : products[p].current_stock >= 0

\* ---- C5 ---------------------------------------------------------------------
\* C5: of concurrent placements only those the stock in the store can still satisfy
\* when they commit succeed, and none leaves a negative stock (no placement commits
\* on a stock it read before another placement's commit).
C5_NoOversellingRace ==
    [][\A r \in Req : (Succeeds(r) /\ DistinctProducts(order_data[r].items)) =>
          \A p \in ProductIds :
              SumQty(order_data[r].items, p) > 0
                  => /\ SumQty(order_data[r].items, p) <= products[p].current_stock
                     /\ products'[p].current_stock >= 0]_vars

\* ---- C6 ---------------------------------------------------------------------
\* C6: a successful placement reduces the stock of every product by the sum of the
\* quantities its items ask of that product, and of no other product.
C6_ReductionEqualsRequested ==
    [][\A r \in Req : Succeeds(r) =>
          \A p \in ProductIds :
              products'[p].current_stock =
                  products[p].current_stock - SumQty(order_data[r].items, p)]_vars

\* ---- C7 ---------------------------------------------------------------------
\* the unit price of the item built last in step 4 by request r
BuiltLast(r) == local'[r].created_items[Len(local'[r].created_items)]

\* the unit price request r gave to an earlier item of the same product
EarlierPrice(r, pid) ==
    LET k == CHOOSE k \in 1 .. Len(local[r].created_items) :
                 local[r].created_items[k].product_id = pid
    IN local[r].created_items[k].unit_price

\* C7: the unit_price of an OrderItem is the price the store held for its product
\* when step 4 of the placement read the product, the placement persists it as
\* built, and no later step (update_product, delete_product, another placement)
\* changes the unit_price get_order and list_orders return for it.
C7_UnitPriceIsSnapshot ==
    [][/\ \A r \in Req :
            (pc[r] = "apply" /\ pc'[r] \in {"apply", "commit"} /\ Step(r)) =>
                LET pid == local[r].products_to_update[local[r].i].product_id
                IN BuiltLast(r).unit_price =
                       IF local[r].idmap[pid].st = "expired"
                         THEN products[pid].price ELSE EarlierPrice(r, pid)
       /\ \A r \in Req : Succeeds(r) =>
            \A k \in 1 .. Len(local[r].created_items) :
                order_items'[Len(order_items) + k].unit_price =
                    local[r].created_items[k].unit_price
       /\ Len(list_orders') >= Len(list_orders)
       /\ \A o \in 1 .. Len(list_orders) :
            /\ get_order(o)' # <<>>
            /\ \A j \in 1 .. Len(list_orders[o].items) :
                 /\ j <= Len(list_orders'[o].items)
                 /\ list_orders'[o].items[j].id = list_orders[o].items[j].id
                 /\ list_orders'[o].items[j].unit_price
                        = list_orders[o].items[j].unit_price
                 /\ get_order(o)'[1].items[j].unit_price
                        = list_orders[o].items[j].unit_price]_vars

\* a persisted item whose product has since got another price, and one whose
\* product has since been deleted
C7_Witness ==
    /\ \E k \in 1 .. Len(order_items) :
          /\ products[order_items[k].product_id].exists
          /\ products[order_items[k].product_id].price # order_items[k].unit_price
    /\ \E k \in 1 .. Len(order_items) : ~products[order_items[k].product_id].exists

\* ---- C8 ---------------------------------------------------------------------
\* C8: every Order a read returns comes with its line items: no state shows an
\* Order whose items (and stock deduction) are not persisted yet.
C8_NoOrderWithoutItems ==
    \A o \in 1 .. Len(list_orders) : Len(list_orders[o].items) >= 1

\* ---- C9 ---------------------------------------------------------------------
\* what the checks of the item at position i must report, by precedence
Expected(r, i) ==
    LET item == order_data[r].items[i]
        seen == session_get(local[r].idmap, item.product_id)
    IN IF item.quantity <= 0
         THEN [NoResult EXCEPT !.kind = "InvalidQuantity", !.at = i]
       ELSE IF seen.st = "none"
         THEN [NoResult EXCEPT !.kind = "ProductNotFound", !.at = i,
                               !.product_id = item.product_id]
       ELSE IF seen.current_stock < item.quantity
         THEN [NoResult EXCEPT !.kind = "InsufficientStock", !.at = i,
                               !.product_id = item.product_id,
                               !.have = seen.current_stock, !.need = item.quantity]
       ELSE NoResult

\* C9: a missing customer is reported before an empty item list, both before any
\* item error; the items are checked in the caller's order and the error is that
\* of the first item failing a check (quantity, then product, then stock); an
\* InsufficientStock names the product, its stock as read and the quantity asked.
C9_FailurePrecedence ==
    [][\A r \in Req :
          /\ (pc[r] = "customer" /\ Step(r)) =>
                IF order_data[r].customer_id \notin customers
                  THEN Ends(r) /\ result'[r].kind = "CustomerNotFound"
                ELSE IF order_data[r].items = <<>>
                  THEN Ends(r) /\ result'[r].kind = "EmptyOrder"
                  ELSE pc'[r] = "validate" /\ local'[r].i = 1
          /\ (pc[r] = "validate" /\ Step(r)) =>
                /\ \A j \in 1 .. local[r].i - 1 : Expected(r, j).kind = "none"
                /\ IF Expected(r, local[r].i).kind # "none"
                     THEN Ends(r) /\ result'[r] = Expected(r, local[r].i)
                     ELSE /\ ~Ends(r)
                          /\ \/ pc'[r] = "validate" /\ local'[r].i = local[r].i + 1
                             \/ /\ pc'[r] = "order"
                                /\ local[r].i = Len(order_data[r].items)]_vars

\* a request whose second item was short of stock after its first item had passed
C9_Witness ==
    \E r \in Req :
        /\ result[r].kind = "InsufficientStock" /\ result[r].at = 2
        /\ result[r].need > result[r].have

\* ---- C10 --------------------------------------------------------------------
\* C10: a successful create_order returns its new Order, PENDING, with the
\* caller's customer, and exactly the items of that order: one per requested
\* line, in the caller's order, with the requested product and quantity.
C10_ReturnsTheOrder ==
    [][\A r \in Req : Succeeds(r) =>
          LET v == result'[r].view[1]
              d == order_data[r]
          IN /\ v.id = local[r].order_id
             /\ v.status = "PENDING"
             /\ v.customer_id = d.customer_id
             /\ Len(v.items) = Len(d.items)
             /\ \A k \in 1 .. Len(d.items) :
                    /\ v.items[k].product_id = d.items[k].product_id
                    /\ v.items[k].quantity = d.items[k].quantity
                    /\ v.items[k].order_id = v.id
             /\ Cardinality({k \in 1 .. Len(order_items') :
                                order_items'[k].order_id = v.id}) = Len(v.items)
             /\ OrderView(orders', order_items', local[r].order_id) = <<v>>]_vars

\* a success with two items returned while the ledger holds items of another order
C10_Witness ==
    \E r \in Req :
        /\ result[r].kind = "ok"
        /\ Len(result[r].view[1].items) = 2
        /\ Len(order_items) > 2

====
